---- MODULE Spec2Model ----
(***************************************************************************)
(* Model of IntelligentDailyScheduleOptimizer (src/schedule_optimizer.py): *)
(* the normalizer (_prepare_activities), the time conversions, the CP-SAT  *)
(* model built by optimize_schedule, the solver's possible answers and the *)
(* extraction of the response.                                             *)
(*                                                                         *)
(* Text is modelled by its structure: a time string is the list of its     *)
(* ':'-separated parts, each part numeric or not; ids and messages are     *)
(* strings.  The opaque output fields title and details, and the echoed    *)
(* nurseId and scheduleDate, are copied through by the code and are not    *)
(* part of the model.                                                      *)
(***************************************************************************)
EXTENDS Integers, Sequences, FiniteSets, TLC

\* req: the request; pc: "call" before and "done" after the call; status: the
\* branch the call took (the solver's status, or ERROR, or EMPTY); sol: the
\* values the solver returned; satisfiable: whether the model handed to the
\* solver has a satisfying assignment; resp: the response
VARIABLES req, pc, status, sol, satisfiable, resp

vars == <<req, pc, status, sol, satisfiable, resp>>

-----------------------------------------------------------------------------
(* Bounds of the model *)

\* largest number of work items in a request
MaxItems == 2

\* largest number of blockedOutTimes entries in a request
MaxBlocked == 1

-----------------------------------------------------------------------------
(* Text values *)

\* an integer-valued dictionary key that is absent
Absent == -1

Num(n) == [num |-> TRUE, val |-> n]

\* a part of a time string that int() rejects
Junk == [num |-> FALSE, val |-> 0]

\* None or "" (both are falsy; both fail in _time_to_minutes)
NoStr == [present |-> FALSE, iso |-> FALSE, parts |-> <<>>]

\* "HH:MM"
T2(h, m) == [present |-> TRUE, iso |-> FALSE, parts |-> <<Num(h), Num(m)>>]

\* "HH:MM:SS"
T3(h, m, s) == [present |-> TRUE, iso |-> FALSE, parts |-> <<Num(h), Num(m), Num(s)>>]

\* "YYYY-MM-DDTHH:MM:SS": parts are those of the text after the 'T'
IsoT(h, m, s) == [present |-> TRUE, iso |-> TRUE, parts |-> <<Num(h), Num(m), Num(s)>>]

\* a text with no ':' and no digits, such as "noon"
BadWord == [present |-> TRUE, iso |-> FALSE, parts |-> <<Junk>>]

\* a text with one numeric part only, such as "0900"
BadNoColon == [present |-> TRUE, iso |-> FALSE, parts |-> <<Num(900)>>]

\* a text whose minute part is not a number, such as "09:xx"
BadMinute == [present |-> TRUE, iso |-> FALSE, parts |-> <<Num(9), Junk>>]

Raise(msg) == [ok |-> FALSE, val |-> 0, err |-> msg]

Return(v) == [ok |-> TRUE, val |-> v, err |-> ""]

\* _time_to_minutes on the ':'-separated parts of a string
PartsToMinutes(parts) ==
    IF Len(parts) < 1 \/ ~parts[1].num THEN Raise("Invalid time format")
    ELSE IF Len(parts) < 2 \/ ~parts[2].num THEN Raise("Invalid time format")
    ELSE IF Len(parts) > 2 /\ ~parts[3].num THEN Raise("Invalid time format")
    ELSE Return(parts[1].val * 60 + parts[2].val)

\* _time_to_minutes: h * 60 + m, the seconds parsed and dropped; a text that
\* holds a date before 'T' has a first part int() rejects
time_to_minutes(ts) ==
    IF ~ts.present THEN Raise("'NoneType' object has no attribute 'split'")
    ELSE IF ts.iso THEN Raise("Invalid time format")
    ELSE PartsToMinutes(ts.parts)

\* _minutes_to_time_str: "HH:MM:00" with floor division and modulo
minutes_to_time_str(minutes) == T3(minutes \div 60, minutes % 60, 0)

NoneVal == [none |-> TRUE, val |-> 0]

Some(v) == [none |-> FALSE, val |-> v]

\* _extract_deadline_time: None for a falsy string and for every string
\* _time_to_minutes rejects (the ValueError is swallowed)
extract_deadline_time(ds) ==
    IF ~ds.present THEN NoneVal
    ELSE LET r == PartsToMinutes(ds.parts)
         IN  IF r.ok THEN Some(r.val) ELSE NoneVal

\* Python truthiness of an Optional[int]: None and 0 are false
Truthy(x) == ~x.none /\ x.val # 0

-----------------------------------------------------------------------------
(* Normalizer: _prepare_activities *)

\* the work-item categories in the order _prepare_activities flattens them
CategoryOrder ==
    << "appointments", "calendar_events", "tasks", "critical_alerts_to_address",
       "follow_ups", "break_times", "care_plans", "patient_admission_alerts",
       "patient_ed_visits", "predefined_appointments", "interventions",
       "patient_communications", "patient_vital_alerts" >>

\* what _prepare_activities reads from an item of one category
Rule(type, idKey, prefix, durKey, durDefault, prioDefault, prioInput, fixable, fixedDefault, hasDeadline, hasPatient) ==
    [type |-> type, idKey |-> idKey, prefix |-> prefix, durKey |-> durKey,
     durDefault |-> durDefault, prioDefault |-> prioDefault,
     prioInput |-> prioInput, fixable |-> fixable, fixedDefault |-> fixedDefault,
     hasDeadline |-> hasDeadline, hasPatient |-> hasPatient]

\* per category: the activity type, the id key (prefix "" when the id is
\* required, else the prefix of the synthesized id), the duration key (default
\* Absent when the key is required), the default priority (prioInput FALSE when
\* the input priority is not read), whether isFixed/isFixedTime and startTime
\* are read and the default of is_fixed, whether deadline and patientId are read
CategoryRule(cat) ==
    CASE cat = "appointments" ->
           Rule("appointment", "itemId", "", "estimatedDuration", Absent, 5, TRUE,
                TRUE, FALSE, FALSE, TRUE)
      [] cat = "calendar_events" ->
           Rule("meeting", "itemId", "", "estimatedDuration", Absent, 4, TRUE,
                TRUE, FALSE, FALSE, FALSE)
      [] cat = "tasks" ->
           Rule("task", "taskId", "", "estimatedDuration", Absent, 5, TRUE,
                FALSE, FALSE, TRUE, TRUE)
      [] cat = "critical_alerts_to_address" ->
           Rule("alert", "alertId", "", "estimatedTimeToAddress", Absent, 10, TRUE,
                FALSE, FALSE, FALSE, TRUE)
      [] cat = "follow_ups" ->
           Rule("follow_up", "followUpId", "", "estimatedDurationForFollowUpAction",
                Absent, 7, TRUE, FALSE, FALSE, FALSE, TRUE)
      [] cat = "break_times" ->
           Rule("break", "breakId", "BREAK", "duration", Absent, 5, FALSE,
                TRUE, FALSE, FALSE, FALSE)
      [] cat = "care_plans" ->
           Rule("care_plan", "carePlanId", "CP", "estimatedDuration", 30, 8, TRUE,
                FALSE, FALSE, TRUE, TRUE)
      [] cat = "patient_admission_alerts" ->
           Rule("admission_alert", "alertId", "ADM", "estimatedTimeToAddress", 15, 9,
                TRUE, FALSE, FALSE, FALSE, TRUE)
      [] cat = "patient_ed_visits" ->
           Rule("ed_visit", "visitId", "ED", "estimatedFollowUpDuration", 20, 8, TRUE,
                FALSE, FALSE, TRUE, TRUE)
      [] cat = "predefined_appointments" ->
           Rule("predefined_appointment", "appointmentId", "PA", "duration", Absent, 6,
                TRUE, TRUE, TRUE, FALSE, TRUE)
      [] cat = "interventions" ->
           Rule("intervention", "interventionId", "INT", "estimatedDuration", 25, 7,
                TRUE, FALSE, FALSE, TRUE, TRUE)
      [] cat = "patient_communications" ->
           Rule("communication", "communicationId", "COMM", "estimatedDuration", 15, 6,
                TRUE, FALSE, FALSE, TRUE, TRUE)
      [] cat = "patient_vital_alerts" ->
           Rule("vital_alert", "alertId", "VITAL", "estimatedTimeToAddress", 20, 9,
                TRUE, FALSE, FALSE, FALSE, TRUE)

\* MockKBS.get_rule("priority_weights").get(text, 5)
priority_weights(text) ==
    CASE text = "High" -> 10
      [] text = "Medium" -> 5
      [] text = "Low" -> 1
      [] OTHER -> 5

\* the priority a category reads: tasks fall back to the weight of
\* initialPriorityScore_text (default "Medium"), break_times always get 5
ItemPriority(item, rule) ==
    IF ~rule.prioInput THEN rule.prioDefault
    ELSE IF item.priority # Absent THEN item.priority
    ELSE IF rule.type = "task"
         THEN priority_weights(IF item.priorityText = "" THEN "Medium"
                               ELSE item.priorityText)
    ELSE rule.prioDefault

\* is_fixed: isFixed/isFixedTime with the category's default
ItemIsFixed(item, rule) ==
    IF ~rule.fixable THEN FALSE
    ELSE IF item.isFixed = "absent" THEN rule.fixedDefault
    ELSE item.isFixed = "true"

\* fixed_start_time_str: startTime only if the isFixed/isFixedTime key is truthy
\* (the default of is_fixed does not count here)
ItemFixedStart(item, rule) ==
    IF rule.fixable /\ item.isFixed = "true" THEN item.startTime ELSE NoStr

\* "<PREFIX>_<n>", n the current length of the flattened list
SynthId(prefix, n) == prefix \o "_" \o ToString(n)

\* the KeyError text of the first required key the item lacks, or ""
ItemKeyError(item, rule) ==
    IF rule.prefix = "" /\ item.id = "" THEN "'" \o rule.idKey \o "'"
    ELSE IF rule.durDefault = Absent /\ item.duration = Absent
         THEN "'" \o rule.durKey \o "'"
    ELSE ""

\* the activity built from one work item, n activities being flattened so far
MakeActivity(item, n) ==
    LET rule == CategoryRule(item.cat)
    IN  [id |-> IF item.id = "" THEN SynthId(rule.prefix, n) ELSE item.id,
         type |-> rule.type,
         duration |-> IF item.duration = Absent THEN rule.durDefault ELSE item.duration,
         priority |-> ItemPriority(item, rule),
         is_fixed |-> ItemIsFixed(item, rule),
         fixed_start_time_str |-> ItemFixedStart(item, rule),
         deadline |-> IF rule.hasDeadline THEN item.deadline ELSE NoStr,
         patient_id |-> IF rule.hasPatient THEN item.patientId ELSE ""]

\* work_items.get(cat, [])
WorkItemsGet(items, cat) == SelectSeq(items, LAMBDA it : it.cat = cat)

RECURSIVE FlattenItems(_, _)
\* the items of categories c..13 in the order the thirteen loops visit them
FlattenItems(items, c) ==
    IF c > Len(CategoryOrder) THEN <<>>
    ELSE WorkItemsGet(items, CategoryOrder[c]) \o FlattenItems(items, c + 1)

RECURSIVE AppendActivities(_, _, _)
\* the loops' effect on prepared_activities: stops at the first KeyError
AppendActivities(flat, k, acc) ==
    IF k > Len(flat) THEN [err |-> "", acts |-> acc]
    ELSE LET e == ItemKeyError(flat[k], CategoryRule(flat[k].cat))
         IN  IF e # "" THEN [err |-> e, acts |-> acc]
             ELSE AppendActivities(flat, k + 1,
                                   Append(acc, MakeActivity(flat[k], Len(acc))))

CriticalTypes == {"alert", "vital_alert", "admission_alert"}

\* the mutant: HIGH_PRIORITY_FIRST boosts from priority 7 on
BoostPriority_from7(a, preference) ==
    IF preference = "CRITICAL_PATIENT_FOCUSED"
    THEN IF a.type \in CriticalTypes /\ a.patient_id # ""
         THEN [a EXCEPT !.priority = @ + 2] ELSE a
    ELSE IF preference = "HIGH_PRIORITY_FIRST"
    THEN IF a.priority >= 7 THEN [a EXCEPT !.priority = @ + 1] ELSE a
    ELSE a

\* the patient-preference priority adjustment of one activity
BoostPriority(a, preference) ==
    IF preference = "CRITICAL_PATIENT_FOCUSED"
    THEN IF a.type \in CriticalTypes /\ a.patient_id # ""
         THEN [a EXCEPT !.priority = @ + 2] ELSE a
    ELSE IF preference = "HIGH_PRIORITY_FIRST"
    THEN IF a.priority >= 8 THEN [a EXCEPT !.priority = @ + 1] ELSE a
    ELSE a

\* _prepare_activities: [err, acts]; err # "" when a required key is missing
prepare_activities(items, preference) ==
    LET r == AppendActivities(FlattenItems(items, 1), 1, <<>>)
    IN  IF r.err # "" THEN r
        ELSE [err |-> "",
              acts |-> [k \in 1..Len(r.acts) |-> BoostPriority(r.acts[k], preference)]]

-----------------------------------------------------------------------------
(* Model builder: the variables and constraints optimize_schedule creates *)

Min2(a, b) == IF a < b THEN a ELSE b

Max2(a, b) == IF a > b THEN a ELSE b

Abs(x) == IF x < 0 THEN -x ELSE x

\* the domain [lo, hi] of an activity's start variable; err is the exception
\* text when the fixed start time does not parse
StartDomain(a, shift_start, shift_end) ==
    LET d == a.duration
        dl == extract_deadline_time(a.deadline)
        isfx == a.is_fixed /\ a.fixed_start_time_str.present
        fx == IF isfx THEN time_to_minutes(a.fixed_start_time_str) ELSE Return(0)
        lo0 == IF isfx THEN fx.val ELSE shift_start
        hi0 == IF isfx THEN fx.val ELSE Max2(shift_start, shift_end - d)
        hi1 == IF Truthy(dl) THEN Min2(hi0, dl.val - d) ELSE hi0
    IN  IF ~fx.ok THEN [err |-> fx.err, lo |-> 0, hi |-> 0]
        ELSE [err |-> "", lo |-> lo0, hi |-> IF lo0 > hi1 THEN lo0 ELSE hi1]

\* activity_vars[activity_id] = {...}: a Python dict keeps the position of the
\* first insertion of a key and the value of the last
DictPut(d, entry) ==
    IF \E k \in 1..Len(d) : d[k].id = entry.id
    THEN [k \in 1..Len(d) |-> IF d[k].id = entry.id THEN entry ELSE d[k]]
    ELSE Append(d, entry)

RECURSIVE ActivityVars(_, _, _, _, _)
\* the loop creating the activity variables: [err, vars], stopping at the
\* first start time that does not parse
ActivityVars(acts, k, shift_start, shift_end, acc) ==
    IF k > Len(acts) THEN [err |-> "", vars |-> acc]
    ELSE LET dom == StartDomain(acts[k], shift_start, shift_end)
         IN  IF dom.err # "" THEN [err |-> dom.err, vars |-> acc]
             ELSE ActivityVars(acts, k + 1, shift_start, shift_end,
                               DictPut(acc, [id |-> acts[k].id, data |-> acts[k],
                                             lo |-> dom.lo, hi |-> dom.hi]))

RECURSIVE ParseBlocked_skip(_, _, _)
\* the mutant: an entry whose start or end does not parse is skipped
ParseBlocked_skip(bo, k, acc) ==
    IF k > Len(bo) THEN [err |-> "", all |-> acc]
    ELSE LET s == time_to_minutes(bo[k].start)
             e == time_to_minutes(bo[k].end)
         IN  IF ~s.ok \/ ~e.ok THEN ParseBlocked_skip(bo, k + 1, acc)
             ELSE ParseBlocked_skip(bo, k + 1,
                                    Append(acc, [start |-> s.val, end |-> e.val]))

RECURSIVE ParseBlocked(_, _, _)
\* the blockedOutTimes loop: [err, all, kept]; all holds every entry's start
\* and end minute, kept the entries of positive duration that become intervals
ParseBlocked(bo, k, acc) ==
    IF k > Len(bo) THEN [err |-> "", all |-> acc]
    ELSE LET s == time_to_minutes(bo[k].start)
             e == time_to_minutes(bo[k].end)
         IN  IF ~s.ok THEN [err |-> s.err, all |-> acc]
             ELSE IF ~e.ok THEN [err |-> e.err, all |-> acc]
             ELSE ParseBlocked(bo, k + 1, Append(acc, [start |-> s.val, end |-> e.val]))

\* the mutant: no blocked interval enters the model
BlockedIntervals_none(all) == <<>>

\* blocked_intervals: only entries with bo_duration > 0 enter the model
BlockedIntervals(all) == SelectSeq(all, LAMBDA b : b.end - b.start > 0)

\* nurse_constraints.get("patientPreference", "BALANCED")
Preference(nc) == IF nc.patientPreference = "" THEN "BALANCED" ELSE nc.patientPreference

\* the CP-SAT model of a request whose activity list is not empty:
\* [err, n, vars, shift_start, shift_end, lunch_duration, lunch_pref, blocked,
\*  blocked_all, preference]; err is the text of the first exception raised
BuildModel(acts, nc) ==
    LET ss == time_to_minutes(nc.shiftStartTime)
        se == time_to_minutes(nc.shiftEndTime)
        lp == time_to_minutes(nc.lunchBreakPreferredStartTime)
        av == ActivityVars(acts, 1, ss.val, se.val, <<>>)
        bo == ParseBlocked(nc.blockedOutTimes, 1, <<>>)
        err == IF ~ss.ok THEN ss.err
               ELSE IF ~se.ok THEN se.err
               ELSE IF ~lp.ok THEN lp.err
               ELSE IF av.err # "" THEN av.err
               ELSE bo.err
    IN  IF err # ""
        THEN [err |-> err, n |-> 0, vars |-> <<>>, shift_start |-> 0, shift_end |-> 0,
              lunch_duration |-> 0, lunch_pref |-> 0, blocked |-> <<>>,
              blocked_all |-> <<>>, preference |-> ""]
        ELSE [err |-> "", n |-> Len(acts), vars |-> av.vars,
              shift_start |-> ss.val, shift_end |-> se.val,
              lunch_duration |-> nc.lunchBreakDuration, lunch_pref |-> lp.val,
              blocked |-> BlockedIntervals(bo.all), blocked_all |-> bo.all,
              preference |-> Preference(nc)]

-----------------------------------------------------------------------------
(* Objective composer and solver *)

RECURSIVE SumOver(_, _)
\* the sum of f over a finite set of indices
SumOver(f, S) ==
    IF S = {} THEN 0
    ELSE LET i == CHOOSE j \in S : TRUE IN f[i] + SumOver(f, S \ {i})

\* the activity variables whose start enters high_priority_terms
HighPriorityTerms(m) == {i \in 1..Len(m.vars) : m.vars[i].data.priority >= 8}

\* the activity variables whose start enters critical_terms
CriticalTerms(m) == {i \in 1..Len(m.vars) : m.vars[i].data.type \in CriticalTypes}

\* the mutant: CRITICAL_PATIENT_FOCUSED without critical activities gets no
\* term in place of the critical one
PolicyTerm_nofallback(m) ==
    IF m.preference = "HIGH_PRIORITY_FIRST" /\ HighPriorityTerms(m) # {} THEN "high"
    ELSE IF m.preference = "PATIENT_CONTEXT_FOCUSED" THEN "patient_transitions"
    ELSE IF m.preference = "SIMILAR_TASK_FIRST" THEN "task_type_transitions"
    ELSE IF m.preference = "CRITICAL_PATIENT_FOCUSED"
    THEN IF CriticalTerms(m) # {} THEN "critical" ELSE "none"
    ELSE IF HighPriorityTerms(m) # {} THEN "high"
    ELSE "none"

\* the term appended to objective_terms besides lunch_deviation: the branch of
\* the preference, and when that appended nothing the BALANCED fallback
PolicyTerm(m) ==
    IF m.preference = "HIGH_PRIORITY_FIRST" /\ HighPriorityTerms(m) # {} THEN "high"
    ELSE IF m.preference = "PATIENT_CONTEXT_FOCUSED" THEN "patient_transitions"
    ELSE IF m.preference = "SIMILAR_TASK_FIRST" THEN "task_type_transitions"
    ELSE IF m.preference = "CRITICAL_PATIENT_FOCUSED" /\ CriticalTerms(m) # {}
    THEN "critical"
    ELSE IF HighPriorityTerms(m) # {} THEN "high"
    ELSE "none"

\* the values the solver may give the unconstrained penalty variable
AuxDomain(m) ==
    CASE PolicyTerm(m) = "patient_transitions" -> 0..(m.n * 10)
      [] PolicyTerm(m) = "task_type_transitions" -> 0..(m.n * 5)
      [] OTHER -> {0}

\* high_priority_start_sum and critical_start_sum lie in
\* [0, len(all_activities_prepared) * shift_end] and must equal the sum
SumDomainOk(m, start) ==
    CASE PolicyTerm(m) = "high" ->
           SumOver(start, HighPriorityTerms(m)) \in 0..(m.n * m.shift_end)
      [] PolicyTerm(m) = "critical" ->
           SumOver(start, CriticalTerms(m)) \in 0..(m.n * m.shift_end)
      [] OTHER -> TRUE

\* lunch_deviation lies in [0, shift_end] and equals |lunch_start - lunch_pref|
LunchDeviationOk(m, lunch) == Abs(lunch - m.lunch_pref) \in 0..m.shift_end

\* the value of the objective on an assignment
Objective(m, s) ==
    Abs(s.lunch - m.lunch_pref)
    + ( CASE PolicyTerm(m) = "high" -> SumOver(s.start, HighPriorityTerms(m)) \div 10
          [] PolicyTerm(m) = "critical" -> SumOver(s.start, CriticalTerms(m)) \div 5
          [] OTHER -> s.aux )

\* two intervals [s1, s1 + d1) and [s2, s2 + d2) as AddNoOverlap orders them
Disjoint(s1, d1, s2, d2) == s1 + d1 <= s2 \/ s2 + d2 <= s1

\* the deadline constraint of one activity variable at start t
DeadlineOk(v, t) ==
    LET dl == extract_deadline_time(v.data.deadline)
    IN  Truthy(dl) => t + v.data.duration <= dl.val

\* start t for variable i is consistent with the starts of variables 1..i-1,
\* the blocked intervals and the deadline
ActivityFits(m, start, i, t) ==
    /\ DeadlineOk(m.vars[i], t)
    /\ \A j \in 1..Len(start) :
          Disjoint(t, m.vars[i].data.duration, start[j], m.vars[j].data.duration)
    /\ \A b \in 1..Len(m.blocked) :
          Disjoint(t, m.vars[i].data.duration,
                   m.blocked[b].start, m.blocked[b].end - m.blocked[b].start)

RECURSIVE StartAssignments(_, _)
\* the assignments of variables 1..i that satisfy AddNoOverlap among the
\* activities and the blocked intervals, the domains and the deadlines
StartAssignments(m, i) ==
    IF i = 0 THEN {<<>>}
    ELSE LET prev == StartAssignments(m, i - 1)
         IN  UNION { { Append(st, t) : t \in {u \in m.vars[i].lo..m.vars[i].hi :
                                                 ActivityFits(m, st, i, u)} }
                     : st \in prev }

\* the blocked intervals do not overlap one another
BlockedDisjoint(m) ==
    \A a, b \in 1..Len(m.blocked) :
        a < b => Disjoint(m.blocked[a].start, m.blocked[a].end - m.blocked[a].start,
                          m.blocked[b].start, m.blocked[b].end - m.blocked[b].start)

\* the domain of lunch_start
LunchDomain(m) == m.shift_start..(m.shift_end - m.lunch_duration)

\* lunch at t overlaps no activity and no blocked interval
LunchFits(m, start, t) ==
    /\ \A j \in 1..Len(start) :
          Disjoint(t, m.lunch_duration, start[j], m.vars[j].data.duration)
    /\ \A b \in 1..Len(m.blocked) :
          Disjoint(t, m.lunch_duration,
                   m.blocked[b].start, m.blocked[b].end - m.blocked[b].start)

\* every assignment that satisfies the model
FeasibleSolutions(m) ==
    IF ~BlockedDisjoint(m) THEN {}
    ELSE UNION { { [start |-> st, lunch |-> t, aux |-> x] :
                     t \in {u \in LunchDomain(m) :
                              LunchFits(m, st, u) /\ LunchDeviationOk(m, u)},
                     x \in AuxDomain(m) }
                 : st \in {u \in StartAssignments(m, Len(m.vars)) : SumDomainOk(m, u)} }

\* the feasible assignments of least objective value
OptimalSolutions(m) ==
    LET F == FeasibleSolutions(m)
    IN  {s \in F : \A r \in F : Objective(m, s) <= Objective(m, r)}

NoSol == [start |-> <<>>, lunch |-> 0, aux |-> 0]

\* what solver.Solve may answer within max_time_in_seconds (sat tells whether
\* the model has a satisfying assignment at all): OPTIMAL with an
\* optimal assignment, FEASIBLE with any assignment found before the time
\* limit, UNKNOWN when the limit passes with none, INFEASIBLE (or, for an empty
\* lunch domain, MODEL_INVALID) when there is none
SolverOutcomes(m) ==
    LET F == FeasibleSolutions(m)
    IN  IF F = {}
        THEN { [status |-> st, sol |-> NoSol, sat |-> FALSE] :
                 st \in IF LunchDomain(m) = {} THEN {"INFEASIBLE", "MODEL_INVALID"}
                        ELSE {"INFEASIBLE", "UNKNOWN"} }
        ELSE { [status |-> "OPTIMAL", sol |-> x, sat |-> TRUE] : x \in OptimalSolutions(m) }
             \cup { [status |-> "FEASIBLE", sol |-> x, sat |-> TRUE] : x \in F }
             \cup { [status |-> "UNKNOWN", sol |-> NoSol, sat |-> TRUE] }

-----------------------------------------------------------------------------
(* Solution extractor *)

ScheduleItem(start, end, type, id) ==
    [slotStartTime |-> minutes_to_time_str(start),
     slotEndTime |-> minutes_to_time_str(end),
     activityType |-> type, relatedItemId |-> id]

\* the sort key: self._time_to_minutes(x["slotStartTime"])
SortKey(item) == time_to_minutes(item.slotStartTime).val

RECURSIVE InsertSorted_before(_, _)
\* the mutant: x placed before the elements of equal key
InsertSorted_before(sorted, x) ==
    IF sorted = <<>> THEN <<x>>
    ELSE IF SortKey(sorted[Len(sorted)]) < SortKey(x) THEN Append(sorted, x)
    ELSE Append(InsertSorted_before(SubSeq(sorted, 1, Len(sorted) - 1), x),
                sorted[Len(sorted)])

RECURSIVE InsertSorted(_, _)
\* x placed after every element whose key is not greater (a stable sort)
InsertSorted(sorted, x) ==
    IF sorted = <<>> THEN <<x>>
    ELSE IF SortKey(sorted[Len(sorted)]) <= SortKey(x) THEN Append(sorted, x)
    ELSE Append(InsertSorted(SubSeq(sorted, 1, Len(sorted) - 1), x),
                sorted[Len(sorted)])

RECURSIVE SortByStart(_)
\* list.sort(key = start minute): stable
SortByStart(items) ==
    IF items = <<>> THEN <<>>
    ELSE InsertSorted(SortByStart(SubSeq(items, 1, Len(items) - 1)), items[Len(items)])

\* the mutant: only the first activity is reported
ActivityRecords_first(m, s) ==
    [i \in 1..Min2(1, Len(m.vars)) |->
        ScheduleItem(s.start[i], s.start[i] + m.vars[i].data.duration,
                     m.vars[i].data.type, m.vars[i].id)]

\* the records of the scheduled activities, in activity_vars order
ActivityRecords(m, s) ==
    [i \in 1..Len(m.vars) |->
        ScheduleItem(s.start[i], s.start[i] + m.vars[i].data.duration,
                     m.vars[i].data.type, m.vars[i].id)]

LunchRecord(m, s) ==
    ScheduleItem(s.lunch, s.lunch + m.lunch_duration, "Break", "LUNCH")

\* the mutant: only the blocks that entered the model are reported
BlockedRecords_kept(m) ==
    [i \in 1..Len(m.blocked) |->
        ScheduleItem(m.blocked[i].start, m.blocked[i].end, "Blocked",
                     "BLOCK_" \o ToString(i - 1))]

\* one record per blockedOutTimes entry, BLOCK_<i> with i from 0
BlockedRecords(m) ==
    [i \in 1..Len(m.blocked_all) |->
        ScheduleItem(m.blocked_all[i].start, m.blocked_all[i].end, "Blocked",
                     "BLOCK_" \o ToString(i - 1))]

LunchWarning == "Lunch break scheduled more than 15 minutes from preferred time."

\* the mutant: a deviation of 15 minutes is warned about too
LunchWarnings_from15(m, s) ==
    IF Abs(s.lunch - m.lunch_pref) >= 15 THEN <<LunchWarning>> ELSE <<>>

\* the check for warnings: abs(lunch_start - lunch_pref) > 15
LunchWarnings(m, s) ==
    IF Abs(s.lunch - m.lunch_pref) > 15 THEN <<LunchWarning>> ELSE <<>>

\* the response on status OPTIMAL or FEASIBLE
ScheduleResponse(m, s) ==
    [optimizedSchedule |->
        SortByStart(ActivityRecords(m, s) \o <<LunchRecord(m, s)>> \o BlockedRecords(m)),
     unachievableItems |-> <<>>,
     optimizationScore |-> Objective(m, s),
     warnings |-> LunchWarnings(m, s)]

\* the mutant: a schedule of the activities that fit is still reported
InfeasibleResponse_partial(acts) ==
    [optimizedSchedule |-> <<ScheduleItem(0, acts[1].duration, acts[1].type, acts[1].id)>>,
     unachievableItems |->
        [k \in 1..(Len(acts) - 1) |->
            [itemId |-> acts[k + 1].id, itemType |-> acts[k + 1].type,
             reason |-> "No feasible schedule found."]],
     optimizationScore |-> 0,
     warnings |-> <<"No feasible schedule could be generated with the given constraints.">>]

\* the response on any other status
InfeasibleResponse(acts) ==
    [optimizedSchedule |-> <<>>,
     unachievableItems |->
        [k \in 1..Len(acts) |->
            [itemId |-> acts[k].id, itemType |-> acts[k].type,
             reason |-> "No feasible schedule found."]],
     optimizationScore |-> 0,
     warnings |-> <<"No feasible schedule could be generated with the given constraints.">>]

\* the mutant: the early return reports nothing
EmptyResponse_nowarning ==
    [optimizedSchedule |-> <<>>, unachievableItems |-> <<>>,
     optimizationScore |-> 0, warnings |-> <<>>]

\* the early return for an empty activity list
EmptyResponse ==
    [optimizedSchedule |-> <<>>, unachievableItems |-> <<>>,
     optimizationScore |-> 0, warnings |-> <<"No activities to schedule">>]

\* the mutant: the except branch reports one text in both places
ErrorResponse_same(e) ==
    [optimizedSchedule |-> <<>>,
     unachievableItems |->
        <<[itemId |-> "ERROR", itemType |-> "system", reason |-> "System error: " \o e]>>,
     optimizationScore |-> 0,
     warnings |-> <<"System error: " \o e, "System error occurred: " \o e>>]

\* the except branch: e is str(e)
ErrorResponse(e) ==
    [optimizedSchedule |-> <<>>,
     unachievableItems |->
        <<[itemId |-> "ERROR", itemType |-> "system", reason |-> "System error: " \o e]>>,
     optimizationScore |-> 0,
     warnings |-> <<"System error occurred: " \o e>>]

NoResponse ==
    [optimizedSchedule |-> <<>>, unachievableItems |-> <<>>,
     optimizationScore |-> 0, warnings |-> <<>>]

-----------------------------------------------------------------------------
(* optimize_schedule *)

\* all_activities_prepared of the request
Prepared(r) == prepare_activities(r.workItems, Preference(r.nurseConstraints))

\* the model built for the request (only when Prepared has no error and is
\* not empty)
ModelOf(r) == BuildModel(Prepared(r).acts, r.nurseConstraints)

\* the call returns; st names the branch taken
Returns(st, s, sat, response) ==
    /\ pc' = "done"
    /\ status' = st
    /\ sol' = s
    /\ satisfiable' = sat
    /\ resp' = response
    /\ UNCHANGED req

\* one call of optimize_schedule(work_items, nurse_constraints)
optimize_schedule ==
    /\ pc = "call"
    /\ LET prep == Prepared(req)
       IN  IF prep.err # "" THEN Returns("ERROR", NoSol, FALSE, ErrorResponse(prep.err))
           ELSE IF prep.acts = <<>> THEN Returns("EMPTY", NoSol, FALSE, EmptyResponse)
           ELSE LET m == ModelOf(req)
                IN  IF m.err # ""
                    THEN Returns("ERROR", NoSol, FALSE, ErrorResponse(m.err))
                    ELSE \E o \in SolverOutcomes(m) :
                           IF o.status \in {"OPTIMAL", "FEASIBLE"}
                           THEN Returns(o.status, o.sol, o.sat,
                                        ScheduleResponse(m, o.sol))
                           ELSE Returns(o.status, NoSol, o.sat,
                                        InfeasibleResponse(prep.acts))

Next == optimize_schedule

-----------------------------------------------------------------------------
(* Requests *)

Item(cat, id, dur, prio, fixed, start, deadline, patient) ==
    [cat |-> cat, id |-> id, duration |-> dur, priority |-> prio,
     priorityText |-> "", isFixed |-> fixed, startTime |-> start,
     deadline |-> deadline, patientId |-> patient]

Constraints(ss, se, lp, ld, bo, pref) ==
    [shiftStartTime |-> ss, shiftEndTime |-> se, lunchBreakPreferredStartTime |-> lp,
     lunchBreakDuration |-> ld, blockedOutTimes |-> bo, patientPreference |-> pref]

\* the position of a category in the flattening order
CategoryIndex(cat) == CHOOSE c \in 1..Len(CategoryOrder) : CategoryOrder[c] = cat

\* the work items of a request: at most n items of U, listed category by
\* category as the dict of lists holds them
ItemLists(U, n) ==
    UNION { { w \in [1..k -> U] :
                \A i \in 1..(k - 1) :
                    CategoryIndex(w[i].cat) <= CategoryIndex(w[i + 1].cat) }
            : k \in 0..n }

\* the blockedOutTimes lists of at most n entries of B
BlockedLists(B, n) == UNION { [1..k -> B] : k \in 0..n }

Block(s, e) == [start |-> s, end |-> e]

\* the shift of the requests: 00:58 to 01:04 (with and without seconds)
ShiftStart == T3(0, 58, 0)

ShiftEnd == T2(1, 4)

\* work items of a scheduling day
SchedItems ==
    { Item("appointments", "V701", 2, 7, "true", T3(1, 0, 0), NoStr, "102"),
      Item("appointments", "V702", 4, Absent, "true", T2(0, 57), NoStr, "P002"),
      Item("appointments", "V703", 2, 5, "true", T3(1, 3, 30), NoStr, ""),
      Item("appointments", "V701", 1, 5, "false", T2(1, 0), NoStr, ""),
      Item("tasks", "T501", 2, 9, "absent", NoStr, IsoT(1, 2, 0), "102"),
      Item("tasks", "T502", 2, 6, "absent", NoStr, T2(0, 59), "P003"),
      Item("tasks", "T503", 1, Absent, "absent", NoStr, T3(0, 0, 0), ""),
      Item("critical_alerts_to_address", "ALERT790", 1, Absent, "absent", NoStr, NoStr, "102"),
      Item("follow_ups", "FU001", 0, 7, "absent", NoStr, NoStr, "205"),
      Item("break_times", "", 1, Absent, "false", NoStr, NoStr, ""),
      Item("care_plans", "", Absent, Absent, "absent", NoStr, T2(1, 4), "102"),
      Item("predefined_appointments", "", 1, Absent, "absent", T2(1, 2), NoStr, "") }

\* 01:01-01:02, and the zero-length 01:02-01:02
SchedBlocks == { Block(T3(1, 1, 0), T3(1, 2, 0)), Block(T2(1, 2), T2(1, 2)) }

\* lunch: preferred 01:00 for 1 minute, or preferred 00:45 for 2 minutes
SchedLunches == { <<T3(1, 0, 0), 1>>, <<T2(0, 45), 2>> }

SchedRequests ==
    { [workItems |-> w,
       nurseConstraints |->
          Constraints(ShiftStart, ShiftEnd, l[1], l[2], bo, "BALANCED")] :
        w \in ItemLists(SchedItems, MaxItems),
        l \in SchedLunches,
        bo \in BlockedLists(SchedBlocks, MaxBlocked) }

InitWith(R) ==
    /\ req \in R
    /\ pc = "call"
    /\ status = "NONE"
    /\ sol = NoSol
    /\ satisfiable = FALSE
    /\ resp = NoResponse

Init == InitWith(SchedRequests)

Spec == Init /\ [][Next]_vars

\* the five policy tags, a tag the code does not know, and the absent key
PolicyTags ==
    { "BALANCED", "HIGH_PRIORITY_FIRST", "CRITICAL_PATIENT_FOCUSED",
      "PATIENT_CONTEXT_FOCUSED", "SIMILAR_TASK_FIRST", "URGENT_FIRST", "" }

\* work items whose priorities and types the policies tell apart; V704 is
\* fixed at 01:05, after the end of the shift
PolicyItems ==
    { Item("appointments", "V701", 1, 5, "true", T3(1, 0, 0), NoStr, "102"),
      Item("appointments", "V704", 1, 8, "true", T3(1, 5, 0), NoStr, "102"),
      Item("tasks", "T501", 2, 9, "absent", NoStr, T3(1, 4, 0), "102"),
      Item("critical_alerts_to_address", "ALERT790", 1, Absent, "absent", NoStr, NoStr, "102"),
      Item("follow_ups", "FU001", 1, 7, "absent", NoStr, NoStr, "205"),
      Item("patient_admission_alerts", "ADM1", 1, 7, "absent", NoStr, NoStr, "102"),
      Item("patient_vital_alerts", "", Absent, 6, "absent", NoStr, NoStr, "") }

PolicyBlocks == { Block(T3(1, 1, 0), T3(1, 2, 0)) }

\* lunch: preferred 01:00 for 1 minute, or preferred 03:00 for 2 minutes
PolicyLunches == { <<T3(1, 0, 0), 1>>, <<T2(3, 0), 2>> }

PolicyRequests ==
    { [workItems |-> w,
       nurseConstraints |-> Constraints(ShiftStart, ShiftEnd, l[1], l[2], bo, pref)] :
        w \in ItemLists(PolicyItems, MaxItems),
        l \in PolicyLunches,
        bo \in BlockedLists(PolicyBlocks, MaxBlocked),
        pref \in PolicyTags }

InitPolicy == InitWith(PolicyRequests)

SpecPolicy == InitPolicy /\ [][Next]_vars

\* work items with and without malformed fields: a fixed start that does not
\* parse, a start that is never read, deadlines that do not parse, missing
\* required durations
ErrorItems ==
    { Item("appointments", "V701", 1, 5, "true", BadMinute, NoStr, "102"),
      Item("appointments", "V702", 1, 5, "false", BadWord, NoStr, ""),
      Item("appointments", "V703", Absent, 5, "false", NoStr, NoStr, ""),
      Item("tasks", "T501", 1, 9, "absent", NoStr, T3(1, 4, 0), "102"),
      Item("tasks", "T502", 1, 6, "absent", NoStr, BadWord, ""),
      Item("break_times", "", Absent, Absent, "false", NoStr, NoStr, ""),
      Item("patient_communications", "", 1, Absent, "absent", NoStr, BadNoColon, "P1") }

ErrorBlocks ==
    { Block(T3(1, 1, 0), T3(1, 2, 0)), Block(BadWord, T2(1, 2)),
      Block(T2(1, 1), BadMinute) }

ErrorRequests ==
    { [workItems |-> w,
       nurseConstraints |-> Constraints(ss, se, lp, 1, bo, "BALANCED")] :
        w \in ItemLists(ErrorItems, MaxItems),
        ss \in {ShiftStart, BadWord, NoStr},
        se \in {ShiftEnd, BadNoColon},
        lp \in {T3(1, 0, 0), IsoT(1, 0, 0)},
        bo \in BlockedLists(ErrorBlocks, MaxBlocked) }

InitError == InitWith(ErrorRequests)

SpecError == InitError /\ [][Next]_vars

\* the sample request S1 at the time scale of the model, every duration one
\* minute and the order of its times kept: shift 00:58-01:08 (08:00-17:00),
\* V701 fixed at 01:00 (09:00), EVT001 fixed at 01:02 (10:00), V702 fixed at
\* 01:06 (14:00), T501 due 01:08 (17:00), T502 due 01:07 (16:00), ALERT790
\* with urgencyScore 10, FU001; lunch preferred at 01:03 (12:30); blocked
\* 01:04-01:05 (13:00-13:30)
S1Items ==
    << Item("appointments", "V701", 1, 7, "true", T3(1, 0, 0), NoStr, "102"),
       Item("appointments", "V702", 1, 5, "true", T3(1, 6, 0), NoStr, "P002"),
       Item("calendar_events", "EVT001", 1, 4, "true", T3(1, 2, 0), NoStr, ""),
       Item("tasks", "T501", 1, 9, "absent", NoStr, T3(1, 8, 0), "102"),
       Item("tasks", "T502", 1, 6, "absent", NoStr, T3(1, 7, 0), "P003"),
       Item("critical_alerts_to_address", "ALERT790", 1, 10, "absent", NoStr, NoStr, "102"),
       Item("follow_ups", "FU001", 1, 7, "absent", NoStr, NoStr, "205") >>

\* S1 under each of the two policies of scenario S5
S1Requests ==
    { [workItems |-> S1Items,
       nurseConstraints |->
          Constraints(T3(0, 58, 0), T3(1, 8, 0), T3(1, 3, 0), 1,
                      <<Block(T3(1, 4, 0), T3(1, 5, 0))>>, pref)] :
        pref \in {"HIGH_PRIORITY_FIRST", "CRITICAL_PATIENT_FOCUSED"} }

InitS1 == InitWith(S1Requests)

SpecS1 == InitS1 /\ [][Next]_vars

-----------------------------------------------------------------------------
(* Reading a response *)

\* the call returned a schedule
HasSchedule == pc = "done" /\ status \in {"OPTIMAL", "FEASIBLE"}

StartMin(rec) == time_to_minutes(rec.slotStartTime).val

EndMin(rec) == time_to_minutes(rec.slotEndTime).val

Schedule == resp.optimizedSchedule

\* the half-open intervals of two records intersect
Intersect(r1, r2) == Max2(StartMin(r1), StartMin(r2)) < Min2(EndMin(r1), EndMin(r2))

\* the work items in flattening order: item k becomes activity k
Flat(r) == FlattenItems(r.workItems, 1)

ShiftStartMin == time_to_minutes(req.nurseConstraints.shiftStartTime).val

ShiftEndMin == time_to_minutes(req.nurseConstraints.shiftEndTime).val

\* activity k of the request is the one activity_vars holds under its id
Kept(k) ==
    LET a == Prepared(req).acts[k]
    IN  \A j \in (k + 1)..Len(Prepared(req).acts) : Prepared(req).acts[j].id # a.id

\* the records of the schedule that carry the id of activity k
RecordsOf(k) ==
    {i \in 1..Len(Schedule) :
        /\ Schedule[i].relatedItemId = Prepared(req).acts[k].id
        /\ Schedule[i].activityType = Prepared(req).acts[k].type}

-----------------------------------------------------------------------------
(* Claims *)

\* C1: in every response that carries a schedule, no two distinct records of
\* optimizedSchedule (activities, LUNCH, Blocked) have intersecting half-open
\* intervals [slotStartTime, slotEndTime).
C1_NonOverlap ==
    HasSchedule =>
        \A i, j \in 1..Len(Schedule) : i # j => ~Intersect(Schedule[i], Schedule[j])

\* C1 witness: a schedule with an activity, the lunch and a blocked interval of
\* positive length
C1_Witness ==
    /\ HasSchedule
    /\ \E i, j, k \in 1..Len(Schedule) :
          /\ Schedule[i].activityType = "Blocked" /\ EndMin(Schedule[i]) > StartMin(Schedule[i])
          /\ Schedule[j].relatedItemId = "LUNCH"
          /\ Schedule[k].activityType \notin {"Blocked", "Break"}

\* C2 as stated: in every response that carries a schedule every activity
\* record and the LUNCH record lie within [shift_start, shift_end].
C2_Containment ==
    HasSchedule =>
        \A i \in 1..Len(Schedule) :
            Schedule[i].activityType # "Blocked" =>
                ShiftStartMin <= StartMin(Schedule[i]) /\ EndMin(Schedule[i]) <= ShiftEndMin

\* C3 as stated: in every response that carries a schedule, every activity
\* that is_fixed and was given a startTime is emitted at that startTime, to the
\* minute.
C3_FixedTimeFidelity ==
    HasSchedule =>
        \A k \in 1..Len(Flat(req)) :
            ( /\ Prepared(req).acts[k].is_fixed
              /\ Flat(req)[k].startTime.present
              /\ Kept(k) )
            => \A i \in RecordsOf(k) :
                  StartMin(Schedule[i]) = time_to_minutes(Flat(req)[k].startTime).val

ReachedSolver == pc = "done" /\ status \notin {"ERROR", "EMPTY"}

WithPolicy(r, p) == [r EXCEPT !.nurseConstraints.patientPreference = p]

\* the request is one optimize_schedule can return a schedule for: it raises
\* nothing, has activities, and its model has a satisfying assignment
GivesSchedule(r) ==
    /\ Prepared(r).err = ""
    /\ Prepared(r).acts # <<>>
    /\ ModelOf(r).err = ""
    /\ FeasibleSolutions(ModelOf(r)) # {}

\* C5 as stated: two requests that differ only in patientPreference either
\* both can be given a schedule or neither can; so when a schedule was
\* returned, the same request under every other tag has one too.
C5_PolicyKeepsFeasibility ==
    HasSchedule => \A p \in PolicyTags : GivesSchedule(WithPolicy(req, p))

\* the texts str(e) of the exceptions the call can raise
ExceptionTexts ==
    {"Invalid time format", "'NoneType' object has no attribute 'split'"}
    \cup {"'" \o CategoryRule(CategoryOrder[c]).durKey \o "'" : c \in 1..Len(CategoryOrder)}
    \cup {"'" \o CategoryRule(CategoryOrder[c]).idKey \o "'" : c \in 1..Len(CategoryOrder)}

\* a work item lacks the duration its category requires
MissingRequiredDuration(r) ==
    \E k \in 1..Len(r.workItems) :
        /\ r.workItems[k].duration = Absent
        /\ r.workItems[k].cat \in
              {"appointments", "calendar_events", "tasks", "critical_alerts_to_address",
               "follow_ups", "break_times", "predefined_appointments"}

\* the response is the system-error response for exception text e
IsSystemError(e) ==
    /\ resp.optimizedSchedule = <<>>
    /\ resp.unachievableItems =
          <<[itemId |-> "ERROR", itemType |-> "system", reason |-> "System error: " \o e]>>
    /\ resp.optimizationScore = 0
    /\ resp.warnings = <<"System error occurred: " \o e>>

Unparseable(ts) == ts.present /\ ~PartsToMinutes(ts.parts).ok

\* a time string _time_to_minutes rejects: not given, holding a date, or not
\* parsing
Rejected(ts) == ~ts.present \/ ts.iso \/ ~PartsToMinutes(ts.parts).ok

\* the shift, lunch or blocked times, or the startTime of an item marked fixed
\* in a category that reads it, are rejected
BadTimeRead(r) ==
    \/ Rejected(r.nurseConstraints.shiftStartTime)
    \/ Rejected(r.nurseConstraints.shiftEndTime)
    \/ Rejected(r.nurseConstraints.lunchBreakPreferredStartTime)
    \/ \E b \in 1..Len(r.nurseConstraints.blockedOutTimes) :
          \/ Rejected(r.nurseConstraints.blockedOutTimes[b].start)
          \/ Rejected(r.nurseConstraints.blockedOutTimes[b].end)
    \/ \E k \in 1..Len(r.workItems) :
          /\ r.workItems[k].cat \in {"appointments", "calendar_events", "break_times",
                                     "predefined_appointments"}
          /\ r.workItems[k].isFixed = "true"
          /\ r.workItems[k].startTime.present
          /\ Rejected(r.workItems[k].startTime)

\* an item of a category that reads deadlines has a deadline that does not parse
BadDeadline(r) ==
    \E k \in 1..Len(r.workItems) :
        /\ r.workItems[k].cat \in {"tasks", "care_plans", "patient_ed_visits",
                                   "interventions", "patient_communications"}
        /\ Unparseable(r.workItems[k].deadline)

C9_EmptyInput ==
    (pc = "done" /\ req.workItems = <<>>) =>
        resp = [optimizedSchedule |-> <<>>, unachievableItems |-> <<>>,
                optimizationScore |-> 0, warnings |-> <<"No activities to schedule">>]

\* C9 witness: an empty request that carries a blocked entry and a shift start
\* that does not parse was answered
C9_Witness ==
    /\ pc = "done"
    /\ req.workItems = <<>>
    /\ req.nurseConstraints.blockedOutTimes # <<>>
    /\ Rejected(req.nurseConstraints.shiftStartTime)
    /\ resp.warnings = <<"No activities to schedule">>

\* the place of a record in the list before the sort: the activities in the
\* order their ids first appear in the normalized list, then LUNCH, then the
\* blocked entries in input order
InsertionRank(rec) ==
    LET acts == Prepared(req).acts
        bo == req.nurseConstraints.blockedOutTimes
    IN  IF rec.activityType = "Blocked"
        THEN Len(acts) + 1
             + (CHOOSE b \in 1..Len(bo) : rec.relatedItemId = "BLOCK_" \o ToString(b - 1))
        ELSE IF rec.activityType = "Break" THEN Len(acts) + 1
        ELSE CHOOSE k \in 1..Len(acts) :
                /\ acts[k].id = rec.relatedItemId
                /\ \A j \in 1..(k - 1) : acts[j].id # rec.relatedItemId

\* C11: in every response that carries a schedule, optimizedSchedule is
\* non-decreasing by the start minute of slotStartTime, and records with the
\* same start minute stand in insertion order (activities in normalization
\* order, then LUNCH, then the Blocked records in input order).
C11_SortOrder ==
    HasSchedule =>
        \A i, j \in 1..Len(Schedule) :
            i < j =>
                \/ StartMin(Schedule[i]) < StartMin(Schedule[j])
                \/ /\ StartMin(Schedule[i]) = StartMin(Schedule[j])
                   /\ InsertionRank(Schedule[i]) < InsertionRank(Schedule[j])

\* C11 witness: a schedule in which a later activity that starts earlier was
\* moved to the front, and an activity and a Blocked record start at the same
\* minute
C11_Witness ==
    /\ HasSchedule
    /\ \E i, j \in 1..Len(Schedule) :
          /\ i < j
          /\ StartMin(Schedule[i]) < StartMin(Schedule[j])
          /\ InsertionRank(Schedule[i]) > InsertionRank(Schedule[j])
    /\ \E i, j \in 1..Len(Schedule) :
          /\ i < j
          /\ StartMin(Schedule[i]) = StartMin(Schedule[j])
          /\ Schedule[i].activityType \notin {"Blocked", "Break"}
          /\ Schedule[j].activityType = "Blocked"

\* the relatedItemId values of the schedule
ScheduleIds == {Schedule[i].relatedItemId : i \in 1..Len(Schedule)}

\* the ids of the normalized activities of the request
NormalizedIds == {Prepared(req).acts[k].id : k \in 1..Len(Prepared(req).acts)}

\* "BLOCK_<i>" for every index i (from 0) of blockedOutTimes
BlockIds ==
    {"BLOCK_" \o ToString(b - 1) : b \in 1..Len(req.nurseConstraints.blockedOutTimes)}

\* C12: in every response that carries a schedule, the relatedItemId values
\* are exactly the normalized activity ids, "LUNCH" and the "BLOCK_<i>" ids,
\* every normalized id being there, "LUNCH" on exactly one record, and
\* unachievableItems is empty.
C12_IdentityRoundTrip ==
    HasSchedule =>
        /\ NormalizedIds \subseteq ScheduleIds
        /\ ScheduleIds = NormalizedIds \cup {"LUNCH"} \cup BlockIds
        /\ Cardinality({i \in 1..Len(Schedule) : Schedule[i].relatedItemId = "LUNCH"}) = 1
        /\ resp.unachievableItems = <<>>

\* C12 witness: a schedule for two activities with distinct ids, one of them
\* synthesized, and a blocked entry
C12_Witness ==
    /\ HasSchedule
    /\ Cardinality(NormalizedIds) = 2
    /\ \E k \in 1..Len(Flat(req)) : Flat(req)[k].id = ""
    /\ BlockIds # {}

\* the start minute of the emitted LUNCH record
LunchStartMin ==
    StartMin(Schedule[CHOOSE i \in 1..Len(Schedule) :
                         Schedule[i].relatedItemId = "LUNCH" /\ Schedule[i].activityType = "Break"])

\* the preferred lunch start of the request, in minutes
LunchPrefMin == time_to_minutes(req.nurseConstraints.lunchBreakPreferredStartTime).val

\* C13: in every response that carries a schedule, the lunch-drift warning is
\* in warnings if and only if the emitted LUNCH record starts more than 15
\* minutes from the preferred start; it is the only warning there can be.
C13_WarningLaw ==
    HasSchedule =>
        /\ (\E w \in 1..Len(resp.warnings) : resp.warnings[w] = LunchWarning)
              <=> Abs(LunchStartMin - LunchPrefMin) > 15
        /\ Len(resp.warnings) <= 1

\* C13 witness: lunch scheduled exactly 15 minutes from the preferred start,
\* without a warning
C13_Witness ==
    /\ HasSchedule
    /\ Abs(LunchStartMin - LunchPrefMin) = 15
    /\ resp.warnings = <<>>

\* the schedules a call on request r may return: the assignments of the
\* solver's OPTIMAL and FEASIBLE answers
ReturnableSolutions(r) ==
    IF Prepared(r).err # "" \/ Prepared(r).acts = <<>> \/ ModelOf(r).err # "" THEN {}
    ELSE {o.sol : o \in {x \in SolverOutcomes(ModelOf(r)) :
                              x.status \in {"OPTIMAL", "FEASIBLE"}}}

\* the sum of the start minutes of the activities with priority >= 8 in the
\* schedule s of request r
HighPriorityStartSum(r, s) == SumOver(s.start, HighPriorityTerms(ModelOf(r)))

\* C14 as stated: when a HIGH_PRIORITY_FIRST request was given a schedule,
\* the sum of the start minutes of its activities with priority >= 8 is at
\* most that sum in every schedule the same request may be given under
\* BALANCED.
C14_PolicyMonotonicity ==
    (HasSchedule /\ req.nurseConstraints.patientPreference = "HIGH_PRIORITY_FIRST") =>
        \A b \in ReturnableSolutions(WithPolicy(req, "BALANCED")) :
            HighPriorityStartSum(req, sol)
                <= HighPriorityStartSum(WithPolicy(req, "BALANCED"), b)

\* the start minute of activity id in assignment s of request r
StartOf(r, s, id) ==
    s.start[CHOOSE i \in 1..Len(ModelOf(r).vars) : ModelOf(r).vars[i].id = id]

\* C15 as stated: S1 is given a schedule under both policies, and the start
\* minute of ALERT790 in an optimal schedule under CRITICAL_PATIENT_FOCUSED is
\* at most its start minute in every optimal schedule under
\* HIGH_PRIORITY_FIRST.
C15_PolicyEffect ==
    /\ pc = "call" => GivesSchedule(req)
    /\ ( /\ pc = "done" /\ status = "OPTIMAL"
         /\ req.nurseConstraints.patientPreference = "CRITICAL_PATIENT_FOCUSED" )
       => \A h \in OptimalSolutions(ModelOf(WithPolicy(req, "HIGH_PRIORITY_FIRST"))) :
              StartOf(req, sol, "ALERT790")
                 <= StartOf(WithPolicy(req, "HIGH_PRIORITY_FIRST"), h, "ALERT790")

\* the request with another lunchBreakPreferredStartTime
WithLunchPref(r, lp) == [r EXCEPT !.nurseConstraints.lunchBreakPreferredStartTime = lp]

\* preferred lunch starts that parse: inside the shift, before it, after it
LunchPrefs == {T3(1, 0, 0), T2(0, 45), T2(3, 0)}

\* C16 as stated: the emitted lunch starts in
\* [shift_start, shift_end - lunch_duration], and when a schedule was returned
\* the same request with any other preferred lunch start is given a schedule
\* too.
C16_LunchSoftTarget ==
    HasSchedule =>
        /\ ShiftStartMin <= LunchStartMin
        /\ LunchStartMin <= ShiftEndMin - req.nurseConstraints.lunchBreakDuration
        /\ \A lp \in LunchPrefs : GivesSchedule(WithLunchPref(req, lp))

\* activity k of the request is pinned: is_fixed with a fixed start time
PinnedActivity(k) ==
    /\ Prepared(req).acts[k].is_fixed
    /\ Prepared(req).acts[k].fixed_start_time_str.present

\* C17 as stated: after a call that reached the solver, every fixed activity
\* either ends by shift_end or is reported in unachievableItems, and no record
\* of a fixed activity in optimizedSchedule ends after shift_end.
C17_FixedWithinShiftOrUnachievable ==
    ReachedSolver =>
        \A k \in 1..Len(Flat(req)) :
            (PinnedActivity(k) /\ Kept(k)) =>
                LET a == Prepared(req).acts[k]
                IN  /\ \/ time_to_minutes(a.fixed_start_time_str).val + a.duration
                               <= ShiftEndMin
                       \/ \E u \in 1..Len(resp.unachievableItems) :
                              resp.unachievableItems[u].itemId = a.id
                    /\ \A i \in RecordsOf(k) : EndMin(Schedule[i]) <= ShiftEndMin

\* the ids of the normalized activities are pairwise distinct
DistinctIds ==
    \A j, k \in 1..Len(Prepared(req).acts) :
        j # k => Prepared(req).acts[j].id # Prepared(req).acts[k].id

\* C18 as stated: the ids of the normalized activities are pairwise distinct
\* in every request that reaches model building (a request with duplicate ids
\* is rejected before).
C18_IdUniqueness == ReachedSolver => DistinctIds

\* the activity a record of the schedule was written from: the last
\* normalized activity with the record's id
RecordActivity(rec) ==
    LET acts == Prepared(req).acts
    IN  acts[CHOOSE k \in 1..Len(acts) :
                /\ acts[k].id = rec.relatedItemId
                /\ \A j \in (k + 1)..Len(acts) : acts[j].id # rec.relatedItemId]

\* the activity records of the schedule
ActivityRecordIndices ==
    {i \in 1..Len(Schedule) : Schedule[i].activityType \notin {"Blocked", "Break"}}

\* the sum of the start minutes of the emitted records of activities with
\* priority >= 8
EmittedHighPrioritySum ==
    SumOver([i \in 1..Len(Schedule) |-> StartMin(Schedule[i])],
            {i \in ActivityRecordIndices : RecordActivity(Schedule[i]).priority >= 8})

\* the sum of the start minutes of the emitted records of activities of type
\* alert, vital_alert or admission_alert
EmittedCriticalSum ==
    SumOver([i \in 1..Len(Schedule) |-> StartMin(Schedule[i])],
            {i \in ActivityRecordIndices : Schedule[i].activityType \in CriticalTypes})

\* the schedule has a record of a critical activity
EmittedCritical == \E i \in ActivityRecordIndices : Schedule[i].activityType \in CriticalTypes

\* the response carries an optimal schedule
HasOptimalSchedule == pc = "done" /\ status = "OPTIMAL"

\* C19 as stated: the score of an optimal schedule is the lunch deviation plus
\* one policy term on the emitted schedule: the high-priority sum over 10
\* under HIGH_PRIORITY_FIRST, BALANCED and unknown tags, the critical sum over
\* 5 under CRITICAL_PATIENT_FOCUSED and nothing else there, 0 under
\* PATIENT_CONTEXT_FOCUSED and SIMILAR_TASK_FIRST.
C19_ObjectiveAsStated ==
    HasOptimalSchedule =>
        resp.optimizationScore =
            Abs(LunchStartMin - LunchPrefMin)
            + ( CASE Preference(req.nurseConstraints) = "CRITICAL_PATIENT_FOCUSED" ->
                       EmittedCriticalSum \div 5
                  [] Preference(req.nurseConstraints)
                        \in {"PATIENT_CONTEXT_FOCUSED", "SIMILAR_TASK_FIRST"} -> 0
                  [] OTHER -> EmittedHighPrioritySum \div 10 )

\* C19 amended: as stated, except that under CRITICAL_PATIENT_FOCUSED with no
\* critical activity the fallback term, the high-priority sum over 10, is
\* added in place of the critical term.
C19_ObjectiveComposition ==
    HasOptimalSchedule =>
        resp.optimizationScore =
            Abs(LunchStartMin - LunchPrefMin)
            + ( CASE Preference(req.nurseConstraints) = "CRITICAL_PATIENT_FOCUSED"
                       /\ EmittedCritical ->
                       EmittedCriticalSum \div 5
                  [] Preference(req.nurseConstraints)
                        \in {"PATIENT_CONTEXT_FOCUSED", "SIMILAR_TASK_FIRST"} -> 0
                  [] OTHER -> EmittedHighPrioritySum \div 10 )

\* C19 witness: an optimal schedule under CRITICAL_PATIENT_FOCUSED without a
\* critical activity whose score holds the high-priority term
C19_Witness ==
    /\ HasOptimalSchedule
    /\ Preference(req.nurseConstraints) = "CRITICAL_PATIENT_FOCUSED"
    /\ ~EmittedCritical
    /\ EmittedHighPrioritySum \div 10 > 0
    /\ resp.optimizationScore =
          Abs(LunchStartMin - LunchPrefMin) + EmittedHighPrioritySum \div 10

\* the four shapes of a response
EmptyShape == resp = EmptyResponse

ScheduleShape ==
    /\ resp.unachievableItems = <<>>
    /\ \E i \in 1..Len(Schedule) : Schedule[i].relatedItemId = "LUNCH"

InfeasibleShape ==
    /\ resp.optimizedSchedule = <<>>
    /\ resp.unachievableItems # <<>>
    /\ \A u \in 1..Len(resp.unachievableItems) :
          resp.unachievableItems[u].reason = "No feasible schedule found."
    /\ resp.optimizationScore = 0
    /\ resp.warnings =
          <<"No feasible schedule could be generated with the given constraints.">>

SystemErrorShape == \E e \in ExceptionTexts : IsSystemError(e)

\* the number of shapes the response has
ShapeCount ==
    Cardinality({n \in 1..4 : \/ n = 1 /\ EmptyShape
                              \/ n = 2 /\ ScheduleShape
                              \/ n = 3 /\ InfeasibleShape
                              \/ n = 4 /\ SystemErrorShape})

\* C20 as stated: every call returns a response of exactly one of the four
\* shapes, optimizedSchedule and unachievableItems are never both non-empty, a
\* schedule has one record per normalized activity plus LUNCH plus one per
\* blockedOutTimes entry, and an infeasibility response has one unachievable
\* record per normalized activity.
C20_AllOrNothing ==
    pc = "done" =>
        /\ ShapeCount = 1
        /\ resp.optimizedSchedule = <<>> \/ resp.unachievableItems = <<>>
        /\ ScheduleShape =>
              Len(Schedule) = Len(Prepared(req).acts) + 1
                              + Len(req.nurseConstraints.blockedOutTimes)
        /\ InfeasibleShape => Len(resp.unachievableItems) = Len(Prepared(req).acts)

\* the model of the request built from the activities as they are before the
\* patient-preference priority adjustment
ModelWithoutBoost(r) ==
    BuildModel(AppendActivities(FlattenItems(r.workItems, 1), 1, <<>>).acts,
               r.nurseConstraints)

\* the activity variables whose start enters the policy term of the objective
ObjectiveTermSet(m) ==
    CASE PolicyTerm(m) = "high" -> HighPriorityTerms(m)
      [] PolicyTerm(m) = "critical" -> CriticalTerms(m)
      [] OTHER -> {}

\* C21: for every request answered with an optimal schedule, under
\* HIGH_PRIORITY_FIRST and CRITICAL_PATIENT_FOCUSED the policy term of the
\* objective and the activities that enter it are the same with and without
\* the priority boost step, and so is the set of optimal schedules; under
\* every other preference the boost step leaves the model as it is.
C21_BoostKeepsOptima ==
    HasOptimalSchedule =>
        IF Preference(req.nurseConstraints)
              \in {"HIGH_PRIORITY_FIRST", "CRITICAL_PATIENT_FOCUSED"}
        THEN /\ PolicyTerm(ModelOf(req)) = PolicyTerm(ModelWithoutBoost(req))
             /\ ObjectiveTermSet(ModelOf(req)) = ObjectiveTermSet(ModelWithoutBoost(req))
             /\ OptimalSolutions(ModelOf(req)) = OptimalSolutions(ModelWithoutBoost(req))
        ELSE ModelOf(req) = ModelWithoutBoost(req)

\* C21 witness: an optimal schedule under CRITICAL_PATIENT_FOCUSED for a
\* request in which the +2 boost lifts a critical activity from below 8 to 8
\* or more, next to an activity of priority 8 or more that is not critical
C21_Witness ==
    /\ HasOptimalSchedule
    /\ Preference(req.nurseConstraints) = "CRITICAL_PATIENT_FOCUSED"
    /\ HighPriorityTerms(ModelOf(req)) # HighPriorityTerms(ModelWithoutBoost(req))
    /\ \E i \in 1..Len(ModelOf(req).vars) :
          /\ ModelOf(req).vars[i].data.priority >= 8
          /\ ModelOf(req).vars[i].data.type \notin CriticalTypes

====
